---- MODULE Spec2Model ----
(***************************************************************************)
(* The meal-logging pipeline of mcp-meal-log: the estimation client        *)
(* (internal/server/sampling.go, two revisions), the SQLite meal store     *)
(* (internal/storage/sqlite.go) and the tool handlers                      *)
(* (internal/server/tools.go: logMeal, calculateCarbs, getMeals).          *)
(*                                                                         *)
(* Carbohydrate amounts are whole grams (the model's values are small      *)
(* integers, exact as float64).  A time is an instant, in ticks of the      *)
(* clock since the epoch, in a Location; a text of a time is the wall      *)
(* clock a layout prints together with the zone it prints.                 *)
(***************************************************************************)
EXTENDS Integers, Sequences, FiniteSets, TLC

(***************************************************************************)
(* Bounds of the model.                                                    *)
(***************************************************************************)
\* Largest reading of the wall clock (time.Now().UnixNano()).
MaxClock == 1
\* Longest completion content, in tokens, given to parseAIResponse.
MaxTokens == 3

\* The requests of a behaviour; net/http serves each on a goroutine of its
\* own, so they run concurrently.
Procs == {"g1", "g2"}

(***************************************************************************)
(* internal/models/meal.go                                                 *)
(***************************************************************************)
HighConfidence == "high"
MediumConfidence == "medium"
LowConfidence == "low"

\* Food{Name, Quantity, CarbsPer100g, EstimatedCarbs, Confidence}
Food(name, quantity, per100, carbs, conf) ==
    [Name |-> name, Quantity |-> quantity, CarbsPer100g |-> per100,
     EstimatedCarbs |-> carbs, Confidence |-> conf]

\* CarbCalculationResponse{Foods, TotalCarbs, Confidence, Clarifications, NeedsMoreInfo}
CarbCalculationResponse(foods, total, conf, clar, nmi) ==
    [Foods |-> foods, TotalCarbs |-> total, Confidence |-> conf,
     Clarifications |-> clar, NeedsMoreInfo |-> nmi]

\* The zero value Go gives a CarbCalculationResponse whose JSON names no field.
ZeroResponse == CarbCalculationResponse(<<>>, 0, "", <<>>, FALSE)

\* The nil *CarbCalculationResponse returned beside an error.
NilResponse == [Nil |-> TRUE]

RECURSIVE SumCarbs(_)
SumCarbs(foods) ==
    IF foods = <<>> THEN 0
    ELSE Head(foods).EstimatedCarbs + SumCarbs(Tail(foods))

(***************************************************************************)
(* What the provider can answer.  A completion content is a sequence of    *)
(* tokens: "{" and "}", a prose word "w", or the member list of a JSON     *)
(* object ("m:..."), whose decoded fields Members gives.                   *)
(***************************************************************************)
Chicken == Food("grilled chicken breast", "150 g", 0, 0, HighConfidence)
Broccoli == Food("steamed broccoli", "100 g", 7, 7, HighConfidence)
Potato == Food("baked potato", "1 medium", 21, 37, MediumConfidence)

MemberTokens ==
    {"m:two", "m:potato", "m:badsum", "m:two-badsum", "m:nofoods", "m:nmi-noclar",
     "m:clar-nonmi", "m:mistyped"}

\* The fields json.Unmarshal fills from a member list (absent fields keep
\* their zero value).
Members(tok) ==
    CASE tok = "m:two" ->
           CarbCalculationResponse(<<Chicken, Broccoli>>, 7, HighConfidence, <<>>, FALSE)
      [] tok = "m:potato" ->
           CarbCalculationResponse(<<Potato>>, 37, MediumConfidence,
                                   <<"What size was the potato?">>, TRUE)
      [] tok = "m:badsum" ->
           CarbCalculationResponse(<<Potato>>, 60, MediumConfidence, <<>>, FALSE)
      [] tok = "m:two-badsum" ->
           CarbCalculationResponse(<<Chicken, Broccoli>>, 60, HighConfidence, <<>>, FALSE)
      [] tok = "m:nofoods" ->
           CarbCalculationResponse(<<>>, 0, LowConfidence, <<>>, FALSE)
      [] tok = "m:nmi-noclar" ->
           CarbCalculationResponse(<<Potato>>, 37, MediumConfidence, <<>>, TRUE)
      [] tok = "m:clar-nonmi" ->
           CarbCalculationResponse(<<Potato>>, 37, MediumConfidence,
                                   <<"What size was the potato?">>, FALSE)
      [] OTHER -> ZeroResponse

\* A member list with a value of the wrong JSON type ("total_carbs": "many").
Mistyped(tok) == tok = "m:mistyped"

Tokens == {"{", "}", "w"} \cup MemberTokens

RECURSIVE SeqsUpTo(_, _)
SeqsUpTo(S, n) ==
    IF n = 0 THEN {<<>>}
    ELSE LET shorter == SeqsUpTo(S, n - 1)
         IN  shorter \cup {Append(s, x) : s \in {t \in shorter : Len(t) = n - 1}, x \in S}

Contents == SeqsUpTo(Tokens, MaxTokens)

\* The text in result.content[0].text: prose that is no JSON object, a JSON
\* object without a string "content", or one whose "content" is c.
TextProse == [json |-> FALSE, hasContent |-> FALSE, content |-> <<>>]
TextNoContent == [json |-> TRUE, hasContent |-> FALSE, content |-> <<>>]
TextWith(c) == [json |-> TRUE, hasContent |-> TRUE, content |-> c]

TextsOver(cs) == {TextProse, TextNoContent} \cup {TextWith(c) : c \in cs}

\* The outcome of httpClient.Do and the decoding of the body.
NoText == [json |-> FALSE, hasContent |-> FALSE, content |-> <<"-">>]
\* httpClient.Do failed (no connection, or the client's Timeout ran out).
HTTPFailure == [net |-> "error", status |-> 0, bodyJSON |-> FALSE, hasText |-> FALSE, text |-> NoText]
\* A body that is no JSON; a JSON body without result.content[0].text; one with it.
HTTPBadBody(code) == [net |-> "ok", status |-> code, bodyJSON |-> FALSE, hasText |-> FALSE, text |-> NoText]
HTTPBadEnvelope(code) == [net |-> "ok", status |-> code, bodyJSON |-> TRUE, hasText |-> FALSE, text |-> NoText]
HTTPText(code, t) == [net |-> "ok", status |-> code, bodyJSON |-> TRUE, hasText |-> TRUE, text |-> t]

StatusOK == 200
StatusCodes == {StatusOK, 500}

ResponsesOver(cs) ==
    {HTTPFailure}
        \cup {HTTPBadBody(code) : code \in StatusCodes}
        \cup {HTTPBadEnvelope(code) : code \in StatusCodes}
        \cup {HTTPText(code, t) : code \in StatusCodes, t \in TextsOver(cs)}

GatewayResponses == ResponsesOver(Contents)

(***************************************************************************)
(* internal/server/sampling.go.  The repository holds two revisions of the *)
(* file; R1 is the one under internal/server/, R2 the later one ("Add      *)
(* model configuration").  A server is built from one of them.             *)
(***************************************************************************)
Revisions == {"R1", "R2"}

\* A (value, error) pair as Go returns it; err = "" is the nil error.
Ok(v) == [err |-> "", val |-> v]
Err(msg, zero) == [err |-> msg, val |-> zero]

\* callGateway without the check of resp.StatusCode.
callGatewayAnyStatus(resp) ==
    IF resp.net # "ok" THEN Err("HTTP request failed", NoText)
    ELSE IF ~resp.bodyJSON THEN Err("failed to decode response", NoText)
    ELSE IF ~resp.hasText THEN Err("unexpected response format", NoText)
    ELSE Ok(resp.text)

\* callGateway: the text of the first content item, or an error.
callGateway(resp) ==
    IF resp.net # "ok" THEN Err("HTTP request failed", NoText)
    ELSE IF resp.status # StatusOK THEN Err("request failed with status", NoText)
    ELSE IF ~resp.bodyJSON THEN Err("failed to decode response", NoText)
    ELSE IF ~resp.hasText THEN Err("unexpected response format", NoText)
    ELSE Ok(resp.text)

\* createFallbackResponse, revision R1.
createFallbackResponseR1 ==
    CarbCalculationResponse(
        <<Food("AI Analysis Result", "estimated", 0, 20, LowConfidence)>>,
        20, LowConfidence,
        <<"Could you provide more specific details about portion sizes?",
          "How was the food prepared (grilled, fried, etc.)?",
          "Were there any sauces or condiments?">>,
        TRUE)

\* createFallbackResponse, revision R2.
createFallbackResponseR2 ==
    CarbCalculationResponse(
        <<Food("Analysis unavailable", "unknown", 0, 20, LowConfidence)>>,
        20, LowConfidence,
        <<"What size was the potato (small, medium, large)?",
          "How much sour cream was used?",
          "Were there any other toppings?">>,
        TRUE)

\* A member list with food objects carries braces of its own.
HasBraces(tok) == tok \in MemberTokens /\ Members(tok).Foods # <<>>
OpensBrace(tok) == tok = "{" \/ HasBraces(tok)
ClosesBrace(tok) == tok = "}" \/ HasBraces(tok)

\* strings.Index(content, "{"): the first token holding a "{", 0 for -1.
IndexBrace(content) ==
    LET hits == {i \in 1..Len(content) : OpensBrace(content[i])}
    IN  IF hits = {} THEN 0 ELSE CHOOSE i \in hits : \A j \in hits : i <= j

\* strings.LastIndex(content, "}"): the last token holding a "}", 0 for -1.
LastIndexBrace(content) ==
    LET hits == {i \in 1..Len(content) : ClosesBrace(content[i])}
    IN  IF hits = {} THEN 0 ELSE CHOOSE i \in hits : \A j \in hits : i >= j

\* end <= start on the byte offsets: the "}" lies in an earlier token, or both
\* offsets lie in one token that is not a member list (a member list's first
\* "{" precedes its last "}").
EndNotAfterStart(content, start, end) ==
    end < start \/ (end = start /\ ~HasBraces(content[start]))

\* json.Unmarshal([]byte(content[start:end+1]), &response)
UnmarshalResponse(content, start, end) ==
    LET inner == SubSeq(content, start + 1, end - 1) IN
    IF content[start] = "{" /\ content[end] = "}" /\ start < end
    THEN IF inner = <<>> THEN Ok(ZeroResponse)
         ELSE IF Len(inner) = 1 /\ inner[1] \in MemberTokens
              THEN IF Mistyped(inner[1])
                   THEN Err("json: cannot unmarshal", ZeroResponse)
                   ELSE Ok(Members(inner[1]))
              ELSE Err("invalid character", ZeroResponse)
    ELSE IF start = end /\ HasBraces(content[start])
                        /\ Len(Members(content[start]).Foods) = 1
         \* the substring is the one food object: only "confidence" is a
         \* field of the response
         THEN Ok([ZeroResponse EXCEPT
                    !.Confidence = Members(content[start]).Foods[1].Confidence])
         ELSE Err("invalid character", ZeroResponse)

\* The steps both revisions share: locate the object in content and decode it.
ExtractJSON(content, fallback) ==
    LET start == IndexBrace(content)
        end == LastIndexBrace(content)
    IN  IF start = 0 THEN Ok(fallback)
        ELSE IF end = 0 \/ EndNotAfterStart(content, start, end) THEN Ok(fallback)
        ELSE LET r == UnmarshalResponse(content, start, end)
             IN  IF r.err # "" THEN Ok(fallback) ELSE Ok(r.val)

\* parseAIResponse, revision R1.
parseAIResponseR1(aiOutput) ==
    IF ~aiOutput.json
    THEN Err("failed to parse completion response", NilResponse)
    ELSE IF ~aiOutput.hasContent
    THEN Err("no content in completion response", NilResponse)
    ELSE ExtractJSON(aiOutput.content, createFallbackResponseR1)

\* parseAIResponse, revision R2.
parseAIResponseR2(aiOutput) ==
    IF ~aiOutput.json THEN Ok(createFallbackResponseR2)
    ELSE IF ~aiOutput.hasContent THEN Ok(createFallbackResponseR2)
    ELSE ExtractJSON(aiOutput.content, createFallbackResponseR2)

parseAIResponse(r, aiOutput) ==
    IF r = "R1" THEN parseAIResponseR1(aiOutput) ELSE parseAIResponseR2(aiOutput)

\* CalculateCarbs: the gateway's answer resp to the completion request.
CalculateCarbs(r, resp) ==
    LET gatewayResponse == callGateway(resp) IN
    IF gatewayResponse.err # ""
    THEN Err("failed to get AI completion", NilResponse)
    ELSE parseAIResponse(r, gatewayResponse.val)

(***************************************************************************)
(* State.                                                                  *)
(***************************************************************************)
VARIABLES
    rev,        \* the revision of sampling.go the server is built from
    clock,      \* the wall clock time.Now() reads
    db,         \* the SQLite database: committed rows, open transactions, write lock
    gor,        \* the request goroutines: position, locals, return value
    notified,   \* the meals handed to addMealToKnowledgeGraph
    call        \* one call of CalculateCarbs on its own: the gateway's answer, the result

vars == <<rev, clock, db, gor, notified, call>>

NilMeal == [Nil |-> TRUE]
NoReturn == [kind |-> "none", err |-> <<>>, val |-> NilMeal]
\* An error is the chain of messages fmt.Errorf("...: %w") builds, outermost first.
ReturnError(msgs) == [kind |-> "error", err |-> msgs, val |-> NilMeal]
ReturnValue(k, v) == [kind |-> k, err |-> <<>>, val |-> v]

(***************************************************************************)
(* package time, as the handlers and the store use it.                     *)
(***************************************************************************)
\* A Location: its offset from UTC in ticks and its abbreviation ("" for a
\* zone without a name, which time.Parse makes of an offset it cannot match).
UTC == [off |-> 0, name |-> "UTC"]
\* time.Local: the image runs with TZ=America/New_York (Dockerfile, line 25),
\* west of UTC; the change between EST and EDT is left out.
LocalOffset == -2
Local == [off |-> LocalOffset, name |-> "EST"]
FixedZone(name, off) == [off |-> off, name |-> name]

\* A time.Time: the instant and the Location it is shown in.
In(unix, loc) == [unix |-> unix, off |-> loc.off, name |-> loc.name]
ZeroTime == In(0, UTC)
\* time.Now()
Now == In(clock, Local)

\* A text of a time: the layout it is written in, the wall clock it shows
\* and the zone it shows (an offset of 0 is shown as "Z" by RFC 3339).
Text(layout, wall, off, name) ==
    [given |-> TRUE, layout |-> layout, wall |-> wall, off |-> off, name |-> name]
\* The timestamp parameter: omitted (""), or a string in some layout.
NoTimestamp == [given |-> FALSE, layout |-> "", wall |-> 0, off |-> 0, name |-> ""]
TimestampString(layout, wall, off) == Text(layout, wall, off, "")

\* t.String(): "2006-01-02 15:04:05.999999999 -0700 MST"; a zone without an
\* abbreviation is printed as its offset once more.
String(t) == Text("String", t.unix + t.off, t.off, t.name)
\* t.Format(time.RFC3339Nano)
FormatRFC3339Nano(t) == Text("RFC3339", t.unix + t.off, t.off, "")

\* A parse that takes a text in any layout.
ParseLenient(s) == Ok(In(s.wall - s.off, UTC))

\* time.Parse(time.RFC3339, s): "Z" is UTC, the offset of time.Local is
\* time.Local, any other offset a zone without a name.
ParseRFC3339(s) ==
    IF s.layout = "RFC3339"
    THEN Ok(In(s.wall - s.off,
               IF s.off = 0 THEN UTC
               ELSE IF s.off = LocalOffset THEN Local
               ELSE FixedZone("", s.off)))
    ELSE Err("parsing time", ZeroTime)

\* time.Parse("2006-01-02 15:04:05.999999999 -0700 MST", s): the text of
\* String().  An abbreviation is read as a zone; an offset in the place of the
\* abbreviation is read only when its digits are a number up to 23, which of
\* the offsets of whole ticks only +0000 is.
ParseString(s) ==
    IF s.layout = "String" /\ (s.name # "" \/ s.off = 0)
    THEN Ok(In(s.wall - s.off, FixedZone(s.name, s.off)))
    ELSE Err("parsing time", ZeroTime)

\* The timestamps a caller passes to log_meal: none, a date without a time,
\* and RFC 3339 strings in UTC and in a zone that is not the server's.
FarOffset == 1
TimestampParams ==
    {NoTimestamp, TimestampString("2006-01-02", 0, 0),
     TimestampString("RFC3339", 0, 0), TimestampString("RFC3339", 0, FarOffset)}

Descriptions == {"", "a potato"}

\* The gateway answers the pipeline is run against: one content of every shape.
PipelineContents ==
    {<<"{", m, "}">> : m \in MemberTokens \ {"m:badsum", "m:two-badsum", "m:mistyped"}}
        \cup {<<"w">>}
Replies == ResponsesOver(PipelineContents)
\* The same and the answers whose total is not the sum of their foods.
RepliesWithBadSums ==
    ResponsesOver(PipelineContents \cup {<<"{", "m:badsum", "}">>, <<"{", "m:two-badsum", "}">>})

\* A request: its position, its locals and what it returned.  http is the
\* outcome of the gateway call it made (transport and status); called and
\* saved record that it called SaveMeal with meal and that SaveMeal returned nil;
\* param is the timestamp parameter it was given; cancelledAt is the position
\* it was at when its caller gave up ("" while the caller waits), and hung says
\* that the gateway will not answer its call.
NoResponse == [net |-> "", status |-> 0, bodyJSON |-> FALSE, hasText |-> FALSE, text |-> NoText]
Outcome(resp) == [net |-> resp.net, status |-> resp.status]
IdleGoroutine ==
    [pc |-> "idle", op |-> "", description |-> "", param |-> NoTimestamp,
     timestamp |-> ZeroTime,
     ask |-> FALSE, http |-> Outcome(NoResponse), carbResp |-> NilResponse, meal |-> NilMeal,
     called |-> FALSE, saved |-> FALSE, cancelledAt |-> "", hung |-> FALSE,
     rows |-> <<>>, out |-> <<>>, ret |-> NoReturn]

(***************************************************************************)
(* internal/storage/sqlite.go                                              *)
(***************************************************************************)
NoTx == [open |-> FALSE, meals |-> <<>>, foods |-> <<>>]

\* NewSQLiteStorage + initSchema: two empty tables.
EmptyDB ==
    [meals |-> <<>>, foods |-> <<>>, seq |-> 0, lock |-> "none",
     tx |-> [p \in Procs |-> NoTx]]

\* The driver (modernc.org/sqlite, imported at line 9, opened without a
\* _time_format at line 19) binds a time.Time argument as the text of String().
BindTime(t) == String(t)

\* The row INSERT INTO meals binds (SaveMeal, lines 84-86).
MealRow(meal) ==
    [id |-> meal.ID, description |-> meal.Description,
     timestamp |-> BindTime(meal.Timestamp),
     total_carbs |-> meal.TotalCarbs, confidence |-> meal.Confidence,
     created_at |-> BindTime(meal.CreatedAt), updated_at |-> BindTime(meal.UpdatedAt),
     source |-> meal.Source]

\* The row INSERT INTO foods binds (SaveMeal, lines 97-99); rowid is the
\* AUTOINCREMENT key.
FoodRow(rowid, mealID, food) ==
    [id |-> rowid, meal_id |-> mealID, name |-> food.Name, quantity |-> food.Quantity,
     carbs_per_100g |-> food.CarbsPer100g, estimated_carbs |-> food.EstimatedCarbs,
     confidence |-> food.Confidence]

HasMealID(rows, id) == \E i \in 1..Len(rows) : rows[i].id = id

\* s.db.Begin(): a deferred transaction, no lock yet.
Begin(d, p) == [d EXCEPT !.tx[p] = [open |-> TRUE, meals |-> <<>>, foods |-> <<>>]]

\* tx.Rollback(): the transaction's rows are dropped and its lock released.
Rollback(d, p) ==
    [d EXCEPT !.tx[p] = NoTx,
              !.lock = IF d.lock = p THEN "none" ELSE d.lock]

\* tx.Exec(mealQuery, ...): a write outside a transaction, visible at once.
InsertMealAutocommit(d, p, meal) ==
    IF d.lock \notin {"none", p}
    THEN Err("database is locked", d)
    ELSE IF HasMealID(d.meals, meal.ID)
    THEN Err("UNIQUE constraint failed: meals.id", d)
    ELSE Ok([d EXCEPT !.meals = Append(@, MealRow(meal)), !.lock = p])

\* tx.Exec(mealQuery, ...) as INSERT OR REPLACE: an upsert.
InsertMealUpsert(d, p, meal) ==
    IF d.lock \notin {"none", p}
    THEN Err("database is locked", d)
    ELSE IF HasMealID(d.meals, meal.ID)
    THEN Ok([d EXCEPT !.meals = [i \in 1..Len(@) |->
                                    IF @[i].id = meal.ID THEN MealRow(meal) ELSE @[i]],
                      !.lock = p])
    ELSE Ok([d EXCEPT !.tx[p].meals = Append(@, MealRow(meal)), !.lock = p])

\* tx.Exec(mealQuery, ...): takes the write lock (SQLITE_BUSY when another
\* connection holds it), checks the PRIMARY KEY, and buffers the row in the
\* transaction.
InsertMeal(d, p, meal) ==
    IF d.lock \notin {"none", p}
    THEN Err("database is locked", d)
    ELSE IF HasMealID(d.meals, meal.ID) \/ HasMealID(d.tx[p].meals, meal.ID)
    THEN Err("UNIQUE constraint failed: meals.id", d)
    ELSE Ok([d EXCEPT !.tx[p].meals = Append(@, MealRow(meal)), !.lock = p])

\* tx.Exec(foodQuery, ...): buffers one food row under the next rowid.
InsertFood(d, p, mealID, food) ==
    IF d.lock \notin {"none", p}
    THEN Err("database is locked", d)
    ELSE Ok([d EXCEPT
               !.tx[p].foods =
                   Append(@, FoodRow(d.seq + Len(@) + 1, mealID, food)),
               !.lock = p])

\* tx.Commit() that publishes the food rows and drops the header row.
CommitFoodsOnly(d, p) ==
    [d EXCEPT !.foods = @ \o d.tx[p].foods,
              !.seq = @ + Len(d.tx[p].foods),
              !.tx[p] = NoTx,
              !.lock = IF d.lock = p THEN "none" ELSE d.lock]

\* tx.Commit() that writes the transaction's rows over the tables.
CommitReplacing(d, p) ==
    [d EXCEPT !.meals = d.tx[p].meals,
              !.foods = d.tx[p].foods,
              !.seq = @ + Len(d.tx[p].foods),
              !.tx[p] = NoTx,
              !.lock = IF d.lock = p THEN "none" ELSE d.lock]

\* tx.Commit(): the transaction's rows become visible together.
Commit(d, p) ==
    [d EXCEPT !.meals = @ \o d.tx[p].meals,
              !.foods = @ \o d.tx[p].foods,
              !.seq = @ + Len(d.tx[p].foods),
              !.tx[p] = NoTx,
              !.lock = IF d.lock = p THEN "none" ELSE d.lock]

\* SELECT ... FROM foods WHERE meal_id = ? ORDER BY id (loadFoodsForMeal).
RECURSIVE SelectFoods(_, _)
SelectFoods(rows, mealID) ==
    IF rows = <<>> THEN <<>>
    ELSE LET r == Head(rows)
             rest == SelectFoods(Tail(rows), mealID)
         IN  IF r.meal_id = mealID
             THEN <<Food(r.name, r.quantity, r.carbs_per_100g, r.estimated_carbs,
                         r.confidence)>> \o rest
             ELSE rest

\* Ticks of the clock in one calendar day.
TicksPerDay == 4
\* The calendar day of a wall clock.
DateOf(wall) == wall \div TicksPerDay

\* DATE(x) of SQLite on a text: a time string is a date, a time and at most
\* a zone written "Z" or with a colon, "+HH:MM", and its date is taken in UTC;
\* a text that goes on otherwise, as the one of String() does with
\* " -0700 MST", is no time string and DATE is NULL.
NullDate == [null |-> TRUE, day |-> 0]
SqliteDate(text) ==
    IF text.layout = "RFC3339"
    THEN [null |-> FALSE, day |-> DateOf(text.wall - text.off)]
    ELSE NullDate

\* text1 < text2 in the BINARY collation, for texts of String(): the wall
\* clock has a fixed width, then comes the sign of the offset ("+" sorts
\* before "-"), its digits, and the abbreviation (an offset before a letter).
SignRank(off) == IF off >= 0 THEN 0 ELSE 1
Magnitude(off) == IF off >= 0 THEN off ELSE -off
NameRank(name) == IF name = "" THEN 0 ELSE IF name = "EST" THEN 1 ELSE 2
TextLess(a, b) ==
    \/ a.wall < b.wall
    \/ /\ a.wall = b.wall
       /\ \/ SignRank(a.off) < SignRank(b.off)
          \/ /\ SignRank(a.off) = SignRank(b.off)
             /\ \/ Magnitude(a.off) < Magnitude(b.off)
                \/ /\ Magnitude(a.off) = Magnitude(b.off)
                   /\ NameRank(a.name) < NameRank(b.name)

\* The start_date / end_date parameter: "" or a calendar day.
NoDate == [given |-> FALSE, day |-> 0]
Day(n) == [given |-> TRUE, day |-> n]
DateParams == {NoDate} \cup {Day(n) : n \in 0..DateOf(MaxClock)}
\* The days the store is asked for: the one before the epoch and the one of it.
StoreDates == {NoDate, Day(-1), Day(0)}

\* The position of the row ORDER BY timestamp DESC yields first (the index on
\* timestamp is walked backwards: among equal timestamps the later row first).
FirstDesc(rows) ==
    CHOOSE i \in 1..Len(rows) :
        \A j \in 1..Len(rows) :
            \/ TextLess(rows[j].timestamp, rows[i].timestamp)
            \/ rows[j].timestamp = rows[i].timestamp /\ j <= i

Without(rows, i) == SubSeq(rows, 1, i - 1) \o SubSeq(rows, i + 1, Len(rows))

RECURSIVE OrderByTimestampDesc(_)
OrderByTimestampDesc(rows) ==
    IF rows = <<>> THEN <<>>
    ELSE LET i == FirstDesc(rows)
         IN  <<rows[i]>> \o OrderByTimestampDesc(Without(rows, i))

RECURSIVE Where(_, _, _)
Where(rows, startDate, endDate) ==
    IF rows = <<>> THEN <<>>
    ELSE LET r == Head(rows)
             date == SqliteDate(r.timestamp)
             \* a comparison with NULL is not true
             keep == /\ (startDate.given => ~date.null /\ date.day >= startDate.day)
                     /\ (endDate.given => ~date.null /\ date.day <= endDate.day)
         IN  (IF keep THEN <<r>> ELSE <<>>) \o Where(Tail(rows), startDate, endDate)

Limit(rows, n) == SubSeq(rows, 1, IF Len(rows) < n THEN Len(rows) ELSE n)

\* The header query reading the rows of open transactions too (a read that is
\* not isolated from writers).
SelectMealsDirty(d, startDate, endDate, limit) ==
    LET RECURSIVE Pending(_)
        Pending(ps) ==
            IF ps = {} THEN <<>>
            ELSE LET p == CHOOSE x \in ps : TRUE
                 IN  d.tx[p].meals \o Pending(ps \ {p})
    IN  Limit(OrderByTimestampDesc(Where(d.meals \o Pending(Procs), startDate, endDate)),
              limit)

\* The header query of GetMeals (lines 109-128) over the committed rows.
SelectMeals(d, startDate, endDate, limit) ==
    Limit(OrderByTimestampDesc(Where(d.meals, startDate, endDate)), limit)

\* rows.Scan of a DATETIME column into a string (lines 140-142): the driver
\* hands a text it can parse as the text of String() over as a time.Time,
\* which database/sql writes into the string in RFC3339Nano, and any other
\* text as it is.
ScanString(text) ==
    LET t == ParseString(text)
    IN  IF t.err = "" THEN FormatRFC3339Nano(t.val) ELSE text

\* rows.Scan into a Meal, the three time.Parse and loadFoodsForMeal, lines
\* 136-165: the meal, or the error of the first column that does not parse
\* (which wraps the error of time.Parse).
ScanMeal(d, row) ==
    LET timestamp == ParseRFC3339(ScanString(row.timestamp))
        createdAt == ParseRFC3339(ScanString(row.created_at))
        updatedAt == ParseRFC3339(ScanString(row.updated_at))
    IN  IF timestamp.err # ""
        THEN Err("failed to parse timestamp", NilMeal)
        ELSE IF createdAt.err # ""
        THEN Err("failed to parse created_at", NilMeal)
        ELSE IF updatedAt.err # ""
        THEN Err("failed to parse updated_at", NilMeal)
        ELSE Ok([ID |-> row.id, Description |-> row.description,
                 Timestamp |-> timestamp.val,
                 Foods |-> SelectFoods(d.foods, row.id), TotalCarbs |-> row.total_carbs,
                 Confidence |-> row.confidence, CreatedAt |-> createdAt.val,
                 UpdatedAt |-> updatedAt.val, Source |-> row.source])

(***************************************************************************)
(* internal/server/tools.go                                                *)
(***************************************************************************)
Free(p) == gor[p].pc = "idle"

Finish(p, ret) == [gor[p] EXCEPT !.pc = "done", !.ret = ret]

\* logMeal opening the store's transaction before it asks for the estimate.
LogMealStartInTx(p) ==
    /\ Free(p)
    /\ gor' = [gor EXCEPT ![p] =
                 [IdleGoroutine EXCEPT !.op = "log_meal", !.description = "a potato",
                                       !.ask = TRUE, !.pc = "estimating",
                                       !.timestamp = Now]]
    /\ db' = Begin(db, p)
    /\ UNCHANGED <<rev, clock, notified, call>>

\* calculateCarbs going on, as logMeal does, to build and save a meal of the
\* estimate.
CalculateCarbsEstimatedSaving(p) ==
    /\ gor[p].pc = "estimating" /\ gor[p].op = "calculate_carbs"
    /\ gor' = [gor EXCEPT ![p].pc = "construct",
                          ![p].http = Outcome(HTTPText(StatusOK, TextProse)),
                          ![p].carbResp = Members("m:two")]
    /\ UNCHANGED <<rev, clock, db, notified, call>>

\* logMeal, lines 39-65: validation and the timestamp; the request to the
\* gateway leaves.
LogMealStart(p) ==
    /\ Free(p)
    /\ \E description \in Descriptions, ts \in TimestampParams :
         LET g == [IdleGoroutine EXCEPT !.op = "log_meal", !.description = description,
                                        !.param = ts, !.ask = TRUE]
             parsed == ParseRFC3339(ts)
         IN  gor' = [gor EXCEPT ![p] =
                 IF description = ""
                 THEN [g EXCEPT !.pc = "done",
                                !.ret = ReturnError(<<"meal description is required">>)]
                 ELSE IF ts.given /\ parsed.err # ""
                 THEN [g EXCEPT !.pc = "done",
                                !.ret = ReturnError(<<"invalid timestamp format", parsed.err>>)]
                 ELSE [g EXCEPT !.pc = "estimating",
                                !.timestamp = IF ts.given THEN parsed.val ELSE Now]]
    /\ UNCHANGED <<rev, clock, db, notified, call>>

\* The decision of logMeal taken on needs_more_info alone.
NeedsClarificationFlagOnly(carbResp) == carbResp.NeedsMoreInfo

\* The decision of logMeal, line 73.
NeedsClarification(carbResp) ==
    carbResp.NeedsMoreInfo /\ Len(carbResp.Clarifications) > 0

\* logMeal, lines 67-79: the estimate arrives, the gateway's answer being one
\* of replies; an error and a request for clarification end the request.
LogMealEstimatedOf(p, replies) ==
    /\ gor[p].pc = "estimating" /\ gor[p].op = "log_meal" /\ ~gor[p].hung
    /\ \E resp \in replies :
         LET r == CalculateCarbs(rev, resp) IN
         gor' = [gor EXCEPT ![p] =
             IF r.err # ""
             THEN [Finish(p, ReturnError(<<"failed to calculate carbs", r.err>>))
                      EXCEPT !.http = Outcome(resp)]
             ELSE IF NeedsClarification(r.val)
             THEN [Finish(p, ReturnValue("needs_clarification", r.val))
                      EXCEPT !.http = Outcome(resp), !.carbResp = r.val]
             ELSE [gor[p] EXCEPT !.pc = "construct", !.http = Outcome(resp), !.carbResp = r.val]]
    /\ UNCHANGED <<rev, clock, db, notified, call>>

LogMealEstimated(p) == LogMealEstimatedOf(p, Replies)

\* logMeal, lines 82-92: the meal.  The literal reads the clock three times
\* in a row, for ID, CreatedAt and UpdatedAt; the three readings are taken
\* in this one step.
LogMealConstruct(p) ==
    /\ gor[p].pc = "construct"
    /\ gor' = [gor EXCEPT ![p].pc = "begin",
                          ![p].meal =
                              [ID |-> clock,
                               Description |-> gor[p].description,
                               Timestamp |-> gor[p].timestamp,
                               Foods |-> gor[p].carbResp.Foods,
                               TotalCarbs |-> gor[p].carbResp.TotalCarbs,
                               Confidence |-> gor[p].carbResp.Confidence,
                               CreatedAt |-> Now, UpdatedAt |-> Now,
                               Source |-> "ai_parsed"]]
    /\ UNCHANGED <<rev, clock, db, notified, call>>

\* logMeal going on to the notifier after an error of SaveMeal.
SaveFailedIgnored(p, msgs) == [gor[p] EXCEPT !.pc = "notify"]

\* logMeal calling SaveMeal again after an error of SaveMeal.
SaveFailedRetried(p, msgs) == [gor[p] EXCEPT !.pc = "begin"]

\* logMeal, lines 95-97: SaveMeal returned an error (its deferred Rollback ran).
SaveFailed(p, msgs) == Finish(p, ReturnError(<<"failed to save meal">> \o msgs))

\* An error of the storage engine itself (I/O, a full disk, SQLITE_BUSY).
EngineError == "storage engine error"

\* SaveMeal, lines 73-77.
SaveBegin(p) ==
    /\ gor[p].pc = "begin"
    /\ \E ok \in BOOLEAN :
         IF ok
         THEN /\ db' = Begin(db, p)
              /\ gor' = [gor EXCEPT ![p].pc = "insertMeal", ![p].called = TRUE]
         ELSE /\ db' = db
              /\ gor' = [gor EXCEPT ![p] =
                            [SaveFailed(p, <<"failed to start transaction", EngineError>>)
                                EXCEPT !.called = TRUE]]
    /\ UNCHANGED <<rev, clock, notified, call>>

\* SaveMeal, lines 84-89.
SaveInsertMeal(p) ==
    /\ gor[p].pc = "insertMeal"
    /\ \E ok \in BOOLEAN :
         LET r == InsertMeal(db, p, gor[p].meal) IN
         IF ok /\ r.err = ""
         THEN /\ db' = r.val
              /\ gor' = [gor EXCEPT ![p].pc = "insertFood"]
         ELSE /\ db' = Rollback(db, p)
              /\ gor' = [gor EXCEPT ![p] =
                            SaveFailed(p, <<"failed to insert meal",
                                            IF r.err # "" THEN r.err ELSE EngineError>>)]
    /\ UNCHANGED <<rev, clock, notified, call>>

\* SaveMeal, lines 96-103: the next food of the loop.
SaveInsertFood(p) ==
    /\ gor[p].pc = "insertFood"
    /\ Len(db.tx[p].foods) < Len(gor[p].meal.Foods)
    /\ \E ok \in BOOLEAN :
         LET food == gor[p].meal.Foods[Len(db.tx[p].foods) + 1]
             r == InsertFood(db, p, gor[p].meal.ID, food)
         IN  IF ok /\ r.err = ""
             THEN /\ db' = r.val
                  /\ UNCHANGED gor
             ELSE /\ db' = Rollback(db, p)
                  /\ gor' = [gor EXCEPT ![p] =
                                SaveFailed(p, <<"failed to insert food",
                                                IF r.err # "" THEN r.err ELSE EngineError>>)]
    /\ UNCHANGED <<rev, clock, notified, call>>

\* SaveMeal, line 105.
SaveCommit(p) ==
    /\ gor[p].pc = "insertFood"
    /\ Len(db.tx[p].foods) = Len(gor[p].meal.Foods)
    /\ \E ok \in BOOLEAN :
         IF ok
         THEN /\ db' = Commit(db, p)
              /\ gor' = [gor EXCEPT ![p].pc = "notify", ![p].saved = TRUE]
         ELSE /\ db' = Rollback(db, p)
              /\ gor' = [gor EXCEPT ![p] = SaveFailed(p, <<EngineError>>)]
    /\ UNCHANGED <<rev, clock, notified, call>>

\* callMemoryService: a placeholder that prints and returns nil.
callMemoryService == ""

\* addMealToKnowledgeGraph
addMealToKnowledgeGraph(meal) == callMemoryService

\* logMeal, lines 100-105: the notifier; its error is printed (line 102) and
\* the meal is returned whether there was one or not.
LogMealNotify(p) ==
    /\ gor[p].pc = "notify"
    /\ notified' = notified \cup {gor[p].meal}
    /\ LET err == addMealToKnowledgeGraph(gor[p].meal) IN
       gor' = [gor EXCEPT ![p] =
                 IF err # "" THEN Finish(p, ReturnValue("meal", gor[p].meal))
                 ELSE Finish(p, ReturnValue("meal", gor[p].meal))]
    /\ UNCHANGED <<rev, clock, db, call>>

\* calculateCarbs, lines 108-121.
CalculateCarbsStart(p) ==
    /\ Free(p)
    /\ \E description \in Descriptions, ask \in BOOLEAN :
         LET g == [IdleGoroutine EXCEPT !.op = "calculate_carbs",
                                        !.description = description, !.ask = ask]
         IN  gor' = [gor EXCEPT ![p] =
                 IF description = ""
                 THEN [g EXCEPT !.pc = "done",
                                !.ret = ReturnError(<<"meal description is required">>)]
                 ELSE [g EXCEPT !.pc = "estimating"]]
    /\ UNCHANGED <<rev, clock, db, notified, call>>

\* calculateCarbs, lines 123-128.
CalculateCarbsEstimated(p) ==
    /\ gor[p].pc = "estimating" /\ gor[p].op = "calculate_carbs" /\ ~gor[p].hung
    /\ \E resp \in Replies :
         LET r == CalculateCarbs(rev, resp) IN
         gor' = [gor EXCEPT ![p] =
             IF r.err # ""
             THEN [Finish(p, ReturnError(<<"failed to calculate carbs", r.err>>))
                      EXCEPT !.http = Outcome(resp)]
             ELSE [Finish(p, ReturnValue("estimate", r.val))
                      EXCEPT !.http = Outcome(resp), !.carbResp = r.val]]
    /\ UNCHANGED <<rev, clock, db, notified, call>>

\* The limits a caller passes to get_meals.
MaxLimit == 2
Limits == 0..MaxLimit
DefaultLimit == 20

\* getMeals, lines 131-142, and the header query of GetMeals.
GetMealsStart(p) ==
    /\ Free(p)
    /\ \E startDate \in DateParams, endDate \in DateParams, limit \in Limits :
         LET n == IF limit <= 0 THEN DefaultLimit ELSE limit IN
         gor' = [gor EXCEPT ![p] =
                   [IdleGoroutine EXCEPT !.op = "get_meals", !.pc = "rows",
                                         !.rows = SelectMeals(db, startDate, endDate, n)]]
    /\ UNCHANGED <<rev, clock, db, notified, call>>

\* GetMeals, lines 135-166: one turn of the rows.Next() loop; on an error
\* GetMeals returns nil with it and getMeals wraps it (lines 143-145).
GetMealsNext(p) ==
    /\ gor[p].pc = "rows" /\ gor[p].rows # <<>>
    /\ LET meal == ScanMeal(db, Head(gor[p].rows)) IN
       gor' = [gor EXCEPT ![p] =
                 IF meal.err # ""
                 THEN [Finish(p, ReturnError(<<"failed to retrieve meals", meal.err,
                                                "parsing time">>))
                          EXCEPT !.rows = <<>>, !.out = <<>>]
                 ELSE [gor[p] EXCEPT !.rows = Tail(@), !.out = Append(@, meal.val)]]
    /\ UNCHANGED <<rev, clock, db, notified, call>>

\* GetMeals, line 168, and getMeals, line 147.
GetMealsReturn(p) ==
    /\ gor[p].pc = "rows" /\ gor[p].rows = <<>>
    /\ gor' = [gor EXCEPT ![p] = [Finish(p, ReturnValue("meals", gor[p].out))
                                     EXCEPT !.out = <<>>]]
    /\ UNCHANGED <<rev, clock, db, notified, call>>

\* The clock advances.
Tick ==
    /\ clock < MaxClock
    /\ clock' = clock + 1
    /\ UNCHANGED <<rev, db, gor, notified, call>>

\* The server process dies and is started again on the same database file:
\* the requests in flight are lost, and SQLite rolls the open transactions back.
InFlight(p) == gor[p].pc \notin {"idle", "done", "crashed"}

Crash ==
    /\ \E p \in Procs : InFlight(p)
    /\ gor' = [p \in Procs |->
                 IF InFlight(p)
                 THEN [IdleGoroutine EXCEPT
                         !.pc = "crashed", !.op = gor[p].op,
                         !.meal = IF gor[p].called THEN gor[p].meal ELSE NilMeal,
                         !.called = gor[p].called,
                         !.saved = gor[p].saved]
                 ELSE gor[p]]
    /\ db' = [db EXCEPT !.tx = [p \in Procs |-> NoTx], !.lock = "none"]
    /\ UNCHANGED <<rev, clock, notified, call>>

\* No call of CalculateCarbs on its own: the pipeline runs.
NoCall == [resp |-> NoResponse, returned |-> FALSE, out |-> Err("", NilResponse)]

Init ==
    /\ rev \in Revisions
    /\ clock = 0
    /\ db = EmptyDB
    /\ gor = [p \in Procs |-> IdleGoroutine]
    /\ notified = {}
    /\ call = NoCall

Next ==
    \/ \E p \in Procs :
        \/ LogMealStart(p)
        \/ LogMealEstimated(p)
        \/ LogMealConstruct(p)
        \/ SaveBegin(p)
        \/ SaveInsertMeal(p)
        \/ SaveInsertFood(p)
        \/ SaveCommit(p)
        \/ LogMealNotify(p)
        \/ CalculateCarbsStart(p)
        \/ CalculateCarbsEstimated(p)
        \/ GetMealsStart(p)
        \/ GetMealsNext(p)
        \/ GetMealsReturn(p)
    \/ Tick
    \/ Crash

Spec == Init /\ [][Next]_vars

(***************************************************************************)
(* The estimation client on its own: one call of CalculateCarbs, for every *)
(* answer of the gateway with a content of at most MaxTokens tokens.       *)
(***************************************************************************)
ClientCalculateCarbs ==
    /\ ~call.returned
    /\ call' = [call EXCEPT !.returned = TRUE, !.out = CalculateCarbs(rev, call.resp)]
    /\ UNCHANGED <<rev, clock, db, gor, notified>>

InitClient ==
    /\ rev \in Revisions
    /\ clock = 0
    /\ db = EmptyDB
    /\ gor = [p \in Procs |-> IdleGoroutine]
    /\ notified = {}
    /\ call \in {[NoCall EXCEPT !.resp = r] : r \in GatewayResponses}

NextClient == ClientCalculateCarbs

SpecClient == InitClient /\ [][NextClient]_vars

(***************************************************************************)
(* The meal store on its own: SaveMeal and GetMeals called one after the   *)
(* other, for meals with every kind of timestamp logMeal builds and every  *)
(* combination of the filters.                                             *)
(***************************************************************************)
\* Most meals saved in a behaviour of the store.
MaxStored == 2

\* SaveMeal, lines 72-106, run to its end by the caller p.
RECURSIVE InsertFoods(_, _, _, _)
InsertFoods(d, p, mealID, foods) ==
    IF foods = <<>> THEN Ok(d)
    ELSE LET r == InsertFood(d, p, mealID, Head(foods))
         IN  IF r.err # "" THEN r ELSE InsertFoods(r.val, p, mealID, Tail(foods))

SaveMeal(d, p, meal) ==
    LET header == InsertMeal(Begin(d, p), p, meal)
        foods == InsertFoods(header.val, p, meal.ID, meal.Foods)
    IN  IF header.err # "" THEN Err("failed to insert meal", Rollback(header.val, p))
        ELSE IF foods.err # "" THEN Err("failed to insert food", Rollback(foods.val, p))
        ELSE Ok(Commit(foods.val, p))

\* The loop of GetMeals leaving out a row that does not scan.
RECURSIVE ScanRowsSkipping(_, _, _)
ScanRowsSkipping(d, rows, meals) ==
    IF rows = <<>> THEN Ok(meals)
    ELSE LET meal == ScanMeal(d, Head(rows))
         IN  ScanRowsSkipping(d, Tail(rows),
                              IF meal.err # "" THEN meals ELSE Append(meals, meal.val))

\* GetMeals, lines 108-169, run to its end: the meals, or nil and the error of
\* the first row that does not scan.
RECURSIVE ScanRows(_, _, _)
ScanRows(d, rows, meals) ==
    IF rows = <<>> THEN Ok(meals)
    ELSE LET meal == ScanMeal(d, Head(rows))
         IN  IF meal.err # "" THEN Err(meal.err, <<>>)
             ELSE ScanRows(d, Tail(rows), Append(meals, meal.val))

GetMeals(d, startDate, endDate, limit) ==
    ScanRows(d, SelectMeals(d, startDate, endDate, limit), <<>>)

\* The wall clocks of the timestamps given to log_meal: on the day before the
\* epoch and on the day of the epoch.
StoreWalls == {-1, 0}
\* The timestamps logMeal resolves (lines 50-59): RFC 3339 strings in UTC, in
\* the server's zone (as time.Now() is) and in another zone.
StoreTimestamps ==
    {ParseRFC3339(TimestampString("RFC3339", wall, off)).val :
        wall \in StoreWalls, off \in {0, LocalOffset, FarOffset}}

\* The meal logMeal builds (lines 82-92) of an estimate of two foods.
StoreMeal(id, timestamp) ==
    [ID |-> id, Description |-> "a potato", Timestamp |-> timestamp,
     Foods |-> <<Chicken, Broccoli>>, TotalCarbs |-> SumCarbs(<<Chicken, Broccoli>>),
     Confidence |-> HighConfidence, CreatedAt |-> Now, UpdatedAt |-> Now,
     Source |-> "ai_parsed"]

\* A database file that holds a meal of another writer, whose column is not
\* the text of a time: NewSQLiteStorage opens the file at dbPath as it
\* finds it (initSchema creates the tables only IF NOT EXISTS).
Garbage == Text("garbage", 0, 0, "")
ForeignDB(column) ==
    LET row == MealRow(StoreMeal(0, In(0, Local)))
    IN  [EmptyDB EXCEPT !.meals = <<[row EXCEPT ![column] = Garbage]>>]

\* No call of GetMeals yet.
NoQuery ==
    [saved |-> <<>>, queried |-> FALSE, startDate |-> NoDate, endDate |-> NoDate,
     limit |-> 0, out |-> Ok(<<>>)]

\* s.storage.SaveMeal(meal): call.saved lists the meals it returned nil for;
\* the answer of an earlier GetMeals is forgotten.
StoreSaveMeal ==
    /\ Len(call.saved) < MaxStored
    /\ \E id \in 1..MaxStored, timestamp \in StoreTimestamps :
         LET meal == StoreMeal(id, timestamp)
             r == SaveMeal(db, "g1", meal)
         IN  /\ db' = r.val
             /\ call' = [NoQuery EXCEPT
                           !.saved = IF r.err = "" THEN Append(call.saved, meal)
                                     ELSE call.saved]
    /\ UNCHANGED <<rev, clock, gor, notified>>

\* s.storage.GetMeals(startDate, endDate, limit), with the limit getMeals
\* passes on (lines 138-142: a positive one).
StoreGetMeals ==
    /\ \E startDate \in StoreDates, endDate \in StoreDates, limit \in 1..MaxLimit :
         call' = [call EXCEPT !.queried = TRUE, !.startDate = startDate,
                              !.endDate = endDate, !.limit = limit,
                              !.out = GetMeals(db, startDate, endDate, limit)]
    /\ UNCHANGED <<rev, clock, db, gor, notified>>

InitStore ==
    /\ rev \in Revisions
    /\ clock = 0
    /\ db \in {EmptyDB} \cup {ForeignDB(column) : column \in {"created_at", "updated_at"}}
    /\ gor = [p \in Procs |-> IdleGoroutine]
    /\ notified = {}
    /\ call = NoQuery

NextStore == StoreSaveMeal \/ StoreGetMeals

SpecStore == InitStore /\ [][NextStore]_vars

(***************************************************************************)
(* One request on its own, with a caller that may give up and a gateway    *)
(* that may never answer.                                                  *)
(***************************************************************************)
\* http.Client{Timeout: 60 * time.Second}, in seconds.
Timeout == 60
\* A client without a timeout.
NeverExpires(timeout) == FALSE
\* A Timeout of zero means no timeout (net/http).
Expires(timeout) == timeout > 0

\* The caller of request p goes away: the context of its HTTP request is
\* cancelled.  The handlers call CalculateCarbs with context.Background()
\* (logMeal, line 67; calculateCarbs, line 123) and callGateway builds its
\* request without a context (line 136), so no code of the request reads it.
CallerCancels(p) ==
    /\ InFlight(p) /\ gor[p].cancelledAt = ""
    /\ gor' = [gor EXCEPT ![p].cancelledAt = gor[p].pc]
    /\ UNCHANGED <<rev, clock, db, notified, call>>

\* The gateway takes the request of p and never answers.
GatewayHangs(p) ==
    /\ gor[p].pc = "estimating" /\ ~gor[p].hung
    /\ gor' = [gor EXCEPT ![p].hung = TRUE]
    /\ UNCHANGED <<rev, clock, db, notified, call>>

\* s.httpClient.Do(req) of callGateway (line 144) gives up after Timeout and
\* returns an error, as a failed transport does.
ClientTimeout(p) ==
    /\ gor[p].pc = "estimating" /\ gor[p].hung /\ Expires(Timeout)
    /\ LET r == CalculateCarbs(rev, HTTPFailure) IN
       gor' = [gor EXCEPT ![p] =
                 [Finish(p, ReturnError(<<"failed to calculate carbs", r.err>>))
                    EXCEPT !.http = Outcome(HTTPFailure)]]
    /\ UNCHANGED <<rev, clock, db, notified, call>>

\* A step of the code of request p.
Run(p) ==
    \/ LogMealStart(p)
    \/ LogMealEstimatedOf(p, RepliesWithBadSums)
    \/ LogMealConstruct(p)
    \/ SaveBegin(p)
    \/ SaveInsertMeal(p)
    \/ SaveInsertFood(p)
    \/ SaveCommit(p)
    \/ LogMealNotify(p)
    \/ CalculateCarbsStart(p)
    \/ CalculateCarbsEstimated(p)
    \/ ClientTimeout(p)

NextRequest ==
    \/ Run("g1")
    \/ CallerCancels("g1")
    \/ GatewayHangs("g1")

SpecRequest == Init /\ [][NextRequest]_vars

\* The goroutine of the request is scheduled, the gateway's answer is read when
\* it is there and the client's timer fires.
SpecRequestLive == SpecRequest /\ WF_vars(Run("g1"))

(***************************************************************************)
(* Properties.                                                             *)
(***************************************************************************)
LogMealDone(p) == gor[p].op = "log_meal" /\ gor[p].pc = "done"

\* The meal m is in the store: its header row and exactly its food rows.
MealInStore(m) ==
    /\ \E i \in 1..Len(db.meals) : db.meals[i] = MealRow(m)
    /\ SelectFoods(db.foods, m.ID) = m.Foods

\* The request p committed its meal.
Persisted(p) == gor[p].saved /\ MealInStore(gor[p].meal)

\* The estimate lets the meal be committed: needsMoreInfo = false or no clarifications.
Committable(carbResp) == ~carbResp.NeedsMoreInfo \/ carbResp.Clarifications = <<>>

\* C1, as claimed: a LogMeal request that obtained an estimate has persisted its
\* meal if and only if the estimate has needsMoreInfo = false or an empty
\* clarifications list; otherwise it returned ClarificationNeeded with the
\* estimate and wrote nothing.
C1_CommittedIffCommittable ==
    \A p \in Procs :
        LogMealDone(p) /\ gor[p].carbResp # NilResponse =>
            /\ Persisted(p) <=> Committable(gor[p].carbResp)
            /\ ~Committable(gor[p].carbResp) =>
                   /\ gor[p].ret = ReturnValue("needs_clarification", gor[p].carbResp)
                   /\ ~gor[p].called

\* C1, amended: a LogMeal request that obtained an estimate calls SaveMeal if and
\* only if the estimate has needsMoreInfo = false or an empty clarifications list,
\* and its meal is persisted if and only if, in addition, SaveMeal succeeded (the
\* request returns the Meal; otherwise it ends with "failed to save meal" and the
\* meal is not committed by it).  With needsMoreInfo = true and clarifications the
\* request returns ClarificationNeeded (the questions and the preliminary
\* estimate), builds no meal and never calls SaveMeal.
C1_CommittedIffCommittableAndSaved ==
    \A p \in Procs :
        LogMealDone(p) /\ gor[p].carbResp # NilResponse =>
            /\ gor[p].called <=> Committable(gor[p].carbResp)
            /\ Persisted(p) <=>
                   (Committable(gor[p].carbResp) /\ gor[p].ret.kind = "meal")
            /\ Committable(gor[p].carbResp) =>
                   \/ gor[p].ret = ReturnValue("meal", gor[p].meal)
                   \/ /\ gor[p].ret.kind = "error"
                      /\ gor[p].ret.err[1] = "failed to save meal"
                      /\ ~gor[p].saved
            /\ ~Committable(gor[p].carbResp) =>
                   /\ gor[p].ret = ReturnValue("needs_clarification", gor[p].carbResp)
                   /\ gor[p].ret.val.Clarifications # <<>>
                   /\ gor[p].meal = NilMeal
                   /\ ~gor[p].called /\ ~gor[p].saved

\* C1, witness: one request committed a meal on an estimate with needsMoreInfo =
\* true and no clarifications, the other returned ClarificationNeeded, and the
\* store holds the one meal.
C1_Witness ==
    \E p, q \in Procs :
        /\ LogMealDone(p) /\ gor[p].ret.kind = "meal" /\ Persisted(p)
        /\ gor[p].carbResp.NeedsMoreInfo /\ gor[p].carbResp.Clarifications = <<>>
        /\ LogMealDone(q) /\ gor[q].ret.kind = "needs_clarification"
        /\ Len(db.meals) = 1

\* C2: SaveMeal is atomic.  In every state of the store, also after a failure or
\* a crash between the inserts and the commit, every header row is the header of
\* a meal some request passed to SaveMeal and the store holds exactly that meal's
\* food rows, in order; and every food row belongs to a header row.
C2_SaveMealAtomic ==
    /\ \A i \in 1..Len(db.meals) :
           \E p \in Procs :
               /\ gor[p].called
               /\ db.meals[i] = MealRow(gor[p].meal)
               /\ SelectFoods(db.foods, db.meals[i].id) = gor[p].meal.Foods
    /\ \A j \in 1..Len(db.foods) : HasMealID(db.meals, db.foods[j].meal_id)

\* C2, witness: a request crashed inside SaveMeal of a meal with two foods and
\* none of its rows is in the store, while the other request's meal of two foods
\* is there in full.
C2_Witness ==
    \E p, q \in Procs :
        /\ gor[p].pc = "crashed" /\ gor[p].called /\ ~gor[p].saved
        /\ Len(gor[p].meal.Foods) = 2
        /\ ~HasMealID(db.meals, gor[p].meal.ID)
        /\ gor[q].saved /\ Len(gor[q].meal.Foods) = 2 /\ MealInStore(gor[q].meal)
        /\ Len(db.foods) = 2

\* The meals a GetMeals call has read so far, or has returned.
MealsRead(p) ==
    IF gor[p].op # "get_meals" THEN <<>>
    ELSE IF gor[p].ret.kind = "meals" THEN gor[p].ret.val
    ELSE gor[p].out

\* C3: whatever the interleaving of GetMeals with SaveMeal, every meal GetMeals
\* has read carries the full food list of the meal that was saved under its id.
C3_NoPartialFoodList ==
    \A p \in Procs :
        \A k \in 1..Len(MealsRead(p)) :
            \E q \in Procs :
                /\ gor[q].saved
                /\ gor[q].meal.ID = MealsRead(p)[k].ID
                /\ MealsRead(p)[k].Foods = gor[q].meal.Foods

\* C3, witness: a GetMeals call that ran beside a LogMeal request has returned
\* that request's meal with its two foods.
C3_Witness ==
    \E p, q \in Procs :
        /\ gor[p].op = "get_meals" /\ gor[p].pc = "done"
        /\ gor[p].ret.kind = "meals"
        /\ Len(gor[p].ret.val) = 1
        /\ Len(gor[p].ret.val[1].Foods) = 2
        /\ gor[q].op = "log_meal" /\ gor[q].pc = "notify"

\* The provider call of request p failed in transport or answered a status other
\* than 200.
ProviderFailed(p) ==
    \/ gor[p].http.net = "error"
    \/ gor[p].http.net = "ok" /\ gor[p].http.status # StatusOK

\* C4: when the provider call fails in transport or answers a non-success status,
\* the request holds no estimate and ends with the error "failed to calculate
\* carbs"; it built no meal, never called SaveMeal, wrote no row, and the notifier
\* was called for committed meals of other requests only.
C4_EstimationUnavailable ==
    \A p \in Procs :
        ProviderFailed(p) =>
            /\ gor[p].pc = "done"
            /\ gor[p].ret.kind = "error"
            /\ gor[p].ret.err[1] = "failed to calculate carbs"
            /\ gor[p].carbResp = NilResponse
            /\ gor[p].meal = NilMeal
            /\ ~gor[p].called /\ ~gor[p].saved
            /\ ~db.tx[p].open
            /\ notified \subseteq {gor[q].meal : q \in {r \in Procs \ {p} : gor[r].saved}}

\* C4, witness: a LogMeal request whose provider call answered status 500 has
\* ended in an error, beside a request that committed and notified.
C4_Witness ==
    \E p, q \in Procs :
        /\ LogMealDone(p) /\ gor[p].http = [net |-> "ok", status |-> 500]
        /\ gor[p].ret.kind = "error"
        /\ LogMealDone(q) /\ gor[q].ret.kind = "meal" /\ gor[q].meal \in notified

\* The provider call of the lone CalculateCarbs call succeeded: status 200.
CallSucceeded == call.resp.net = "ok" /\ call.resp.status = StatusOK

\* C5: parsing failures are never surfaced.  Whenever the provider call succeeded,
\* whatever the payload, CalculateCarbs returns an estimate and no error.
C5_ParsingNeverSurfaced ==
    call.returned /\ CallSucceeded =>
        call.out.err = "" /\ call.out.val # NilResponse

\* A JSON object can be located in the content and decodes as an estimate.
Parseable(content) ==
    LET start == IndexBrace(content)
        end == LastIndexBrace(content)
    IN  /\ start # 0 /\ end # 0
        /\ ~EndNotAfterStart(content, start, end)
        /\ UnmarshalResponse(content, start, end).err = ""

\* The gateway delivered a text payload that holds no parseable JSON object.
NoParseableObject ==
    /\ CallSucceeded /\ call.resp.bodyJSON /\ call.resp.hasText
    /\ \/ ~call.resp.text.json
       \/ ~call.resp.text.hasContent
       \/ ~Parseable(call.resp.text.content)

\* The three generic questions: portion size, preparation method, condiments.
GenericQuestions ==
    <<"Could you provide more specific details about portion sizes?",
      "How was the food prepared (grilled, fried, etc.)?",
      "Were there any sauces or condiments?">>

\* C6: if the payload holds no parseable JSON object, the result is the Fallback
\* Estimate: no error, one food item, confidence low, needsMoreInfo true and the
\* three generic questions about portion size, preparation method and condiments.
C6_DeterministicFallback ==
    call.returned /\ NoParseableObject =>
        /\ call.out.err = ""
        /\ call.out.val # NilResponse
        /\ Len(call.out.val.Foods) = 1
        /\ call.out.val.Confidence = LowConfidence
        /\ call.out.val.NeedsMoreInfo
        /\ call.out.val.Clarifications = GenericQuestions

\* C7: CalculateCarbs returns an error or a well-formed estimate: its totalCarbs
\* is the sum of its foods' estimatedCarbs and its confidence is one of high,
\* medium, low.
C7_TotalIsSumOfFoods ==
    call.returned =>
        \/ call.out.err # ""
        \/ /\ call.out.val # NilResponse
           /\ call.out.val.TotalCarbs = SumCarbs(call.out.val.Foods)
           /\ call.out.val.Confidence \in {HighConfidence, MediumConfidence, LowConfidence}

\* C8: every meal in the store has at least one food row.
C8_CommittedFoodsNonEmpty ==
    \A i \in 1..Len(db.meals) : SelectFoods(db.foods, db.meals[i].id) # <<>>

\* Request p takes a step.
Steps(p) == gor'[p] # gor[p]

\* C9: when SaveMeal comes to insert a meal whose id is already in the store, it
\* fails: the request ends with "failed to save meal" (UNIQUE constraint), the
\* transaction is gone, and the header rows and food rows of the store are what
\* they were (no upsert, no row of the new meal).
C9_DuplicateIDFails ==
    [][\A p \in Procs :
          (/\ gor[p].pc = "insertMeal"
           /\ HasMealID(db.meals, gor[p].meal.ID)
           /\ Steps(p))
          => /\ db'.meals = db.meals
             /\ db'.foods = db.foods
             /\ ~db'.tx[p].open
             /\ gor'[p].pc \in {"done", "crashed"}
             /\ ~gor'[p].saved
             /\ gor'[p].pc = "done" =>
                    /\ gor'[p].ret.kind = "error"
                    /\ gor'[p].ret.err[1] = "failed to save meal"]_vars

\* C9, witness: a request's SaveMeal failed on the UNIQUE constraint of meals.id
\* against the other request's committed meal, which differs from its own and is
\* in the store as it was saved.
C9_Witness ==
    \E p, q \in Procs :
        /\ LogMealDone(p) /\ gor[p].ret.kind = "error"
        /\ gor[p].ret.err =
               <<"failed to save meal", "failed to insert meal",
                 "UNIQUE constraint failed: meals.id">>
        /\ gor[q].saved /\ gor[q].meal.ID = gor[p].meal.ID
        /\ gor[q].meal # gor[p].meal
        /\ Len(gor[p].meal.Foods) = 2
        /\ MealInStore(gor[q].meal)
        /\ Len(db.meals) = 1

\* C10: meal ids are unique.  Two requests that call SaveMeal never carry the same
\* id, and no request fails on the UNIQUE constraint of meals.id.
C10_UniqueIDs ==
    /\ \A p, q \in Procs :
           p # q /\ gor[p].called /\ gor[q].called => gor[p].meal.ID # gor[q].meal.ID
    /\ \A p \in Procs :
           gor[p].ret.kind = "error" =>
               \A k \in 1..Len(gor[p].ret.err) :
                   gor[p].ret.err[k] # "UNIQUE constraint failed: meals.id"

(***************************************************************************)
(* Properties of the store (SpecStore).                                    *)
(***************************************************************************)
\* The rows the last GetMeals selected.
Selected == SelectMeals(db, call.startDate, call.endDate, call.limit)

\* C11: GetMeals with limit N returns at most N meals, and no returned meal is
\* later than one returned before it.
C11_LimitAndOrder ==
    call.queried =>
        /\ Len(call.out.val) <= call.limit
        /\ \A i, j \in 1..Len(call.out.val) :
               i < j => call.out.val[j].Timestamp.unix <= call.out.val[i].Timestamp.unix

\* The day the timestamp column of a row shows lies in the range asked for.
InRange(row, startDate, endDate) ==
    /\ startDate.given => DateOf(row.timestamp.wall) >= startDate.day
    /\ endDate.given => DateOf(row.timestamp.wall) <= endDate.day

Qualifying(startDate, endDate) ==
    {i \in 1..Len(db.meals) : InRange(db.meals[i], startDate, endDate)}

Min(a, b) == IF a < b THEN a ELSE b

\* C12: a GetMeals that succeeds returns, up to the limit, exactly the meals
\* whose timestamp's day is in the inclusive range [startDate, endDate], each
\* bound applying only if given.
C12_InclusiveDateRange ==
    (call.queried /\ call.out.err = "") =>
        /\ Len(call.out.val) =
               Min(call.limit, Cardinality(Qualifying(call.startDate, call.endDate)))
        /\ \A k \in 1..Len(call.out.val) :
               \E i \in Qualifying(call.startDate, call.endDate) :
                   db.meals[i].id = call.out.val[k].ID

\* Two meals equal in every field, times compared as instants.
SameMeal(a, b) ==
    /\ a.ID = b.ID /\ a.Description = b.Description
    /\ a.Timestamp.unix = b.Timestamp.unix
    /\ a.TotalCarbs = b.TotalCarbs /\ a.Confidence = b.Confidence
    /\ a.CreatedAt.unix = b.CreatedAt.unix /\ a.UpdatedAt.unix = b.UpdatedAt.unix
    /\ a.Source = b.Source /\ a.Foods = b.Foods

\* C13: a GetMeals whose range holds the day of a saved meal's timestamp and
\* whose limit is not below the number of meals stored succeeds and returns
\* a meal equal to the one saved, foods in their order.
C13_RoundTrip ==
    \A n \in 1..Len(call.saved) :
        (/\ call.queried
         /\ call.limit >= Len(db.meals)
         /\ InRange(MealRow(call.saved[n]), call.startDate, call.endDate))
        => /\ call.out.err = ""
           /\ \E k \in 1..Len(call.out.val) : SameMeal(call.out.val[k], call.saved[n])

\* A stored text that is not the text of a time the reader takes: no time at
\* all, or the text of String() with an offset in the place of the abbreviation.
Malformed(text) ==
    \/ text.layout = "garbage"
    \/ text.layout = "String" /\ text.name = "" /\ text.off # 0

MalformedRow(row) ==
    Malformed(row.timestamp) \/ Malformed(row.created_at) \/ Malformed(row.updated_at)

\* C14: when a row GetMeals selected has a malformed timestamp, created_at or
\* updated_at, GetMeals returns an error and no meal, not the rows before it
\* and not the rows but it.
C14_CorruptRecordFatal ==
    (call.queried /\ \E i \in 1..Len(Selected) : MalformedRow(Selected[i]))
        => call.out.err # "" /\ call.out.val = <<>>

\* C14, witness: GetMeals selected a row that scans and after it a row SaveMeal
\* wrote whose timestamp is malformed, and returned the error.
C14_Witness ==
    /\ call.queried /\ Len(Selected) = 2 /\ Len(call.saved) = 2
    /\ ~MalformedRow(Selected[1])
    /\ Malformed(Selected[2].timestamp)
    /\ call.out.err = "failed to parse timestamp" /\ call.out.val = <<>>

\* C14, second witness of the other columns: a row whose created_at, or whose
\* updated_at, is malformed made GetMeals fail.
C14_WitnessAuditColumns ==
    /\ call.queried /\ Len(Selected) = 1
    /\ ~Malformed(Selected[1].timestamp)
    /\ call.out.err \in {"failed to parse created_at", "failed to parse updated_at"}

(***************************************************************************)
(* Properties of the handlers (Spec), continued.                           *)
(***************************************************************************)
\* C15: a LogMeal request with an empty description, or with a timestamp that is
\* not an RFC 3339 string, ends at once with the error of the invalid input,
\* no call of the gateway made and the store untouched; any other request goes
\* on to the estimation, with the current time as its timestamp when none was
\* given.
C15_InvalidInputBeforeEstimation ==
    [][\A p \in Procs :
          (gor[p].pc = "idle" /\ gor'[p].op = "log_meal") =>
              LET g == gor'[p] IN
              /\ db' = db /\ notified' = notified
              /\ g.http = Outcome(NoResponse) /\ g.carbResp = NilResponse
              /\ IF g.description = ""
                 THEN g.pc = "done" /\ g.ret = ReturnError(<<"meal description is required">>)
                 ELSE IF g.param.given /\ g.param.layout # "RFC3339"
                 THEN /\ g.pc = "done" /\ g.ret.kind = "error"
                      /\ g.ret.err[1] = "invalid timestamp format"
                 ELSE /\ g.pc = "estimating" /\ g.ret = NoReturn
                      /\ ~g.param.given => g.timestamp = In(clock, Local)]_vars

\* C15, witness: one request given a date without a time has ended with
\* "invalid timestamp format" and never called the gateway or SaveMeal; another,
\* given no timestamp, is estimating with the current time as its timestamp.
C15_Witness ==
    \E p, q \in Procs :
        /\ LogMealDone(p) /\ gor[p].param.layout = "2006-01-02"
        /\ gor[p].ret.kind = "error" /\ gor[p].ret.err[1] = "invalid timestamp format"
        /\ gor[p].http = Outcome(NoResponse) /\ ~gor[p].called
        /\ gor[q].op = "log_meal" /\ gor[q].pc = "estimating" /\ ~gor[q].param.given
        /\ gor[q].timestamp = In(clock, Local)
        /\ db = EmptyDB

\* C16: a request whose estimation call is in flight holds no transaction and no
\* lock of the store, and a request that holds a transaction is a LogMeal
\* request whose estimation call has answered.
C16_EstimationBeforeTransaction ==
    \A p \in Procs :
        /\ gor[p].pc = "estimating" => ~db.tx[p].open /\ db.lock # p
        /\ db.tx[p].open =>
               /\ gor[p].op = "log_meal"
               /\ gor[p].http = [net |-> "ok", status |-> StatusOK]
               /\ gor[p].carbResp # NilResponse
               /\ gor[p].pc \in {"insertMeal", "insertFood"}

\* C16, witness: one request holds the store's write lock in its transaction,
\* its estimate received, while the estimation call of the other is in flight.
C16_Witness ==
    \E p, q \in Procs :
        /\ gor[p].pc = "estimating" /\ gor[p].op = "log_meal"
        /\ db.tx[q].open /\ db.lock = q /\ Len(db.tx[q].foods) = 1
        /\ gor[q].http.net = "ok"

SaveMealFailed(p) == LogMealDone(p) /\ gor[p].called /\ ~gor[p].saved

\* C18: a request whose SaveMeal returned an error ends with the error "failed
\* to save meal" and no meal, its transaction rolled back; it hands nothing to
\* the notifier, the store holds no row it wrote (a row under its id is the
\* row of another request that saved a meal with that id), and SaveMeal is
\* entered only once, from the construction of the meal.
C18_PersistenceErrorTerminal ==
    /\ [](\A p \in Procs :
            SaveMealFailed(p) =>
                /\ gor[p].ret.kind = "error" /\ gor[p].ret.val = NilMeal
                /\ gor[p].ret.err[1] = "failed to save meal"
                /\ ~db.tx[p].open /\ db.lock # p
                /\ notified \subseteq {gor[q].meal : q \in {r \in Procs \ {p} : gor[r].saved}}
                /\ \A i \in 1..Len(db.meals) :
                       db.meals[i].id = gor[p].meal.ID =>
                           \E q \in Procs \ {p} :
                               /\ gor[q].saved /\ db.meals[i] = MealRow(gor[q].meal)
                               /\ SelectFoods(db.foods, gor[p].meal.ID) = gor[q].meal.Foods
                /\ (~ \E i \in 1..Len(db.meals) : db.meals[i].id = gor[p].meal.ID) =>
                       SelectFoods(db.foods, gor[p].meal.ID) = <<>>)
    /\ [][\A p \in Procs :
            /\ gor'[p].pc = "begin" => gor[p].pc \in {"construct", "begin"}
            /\ SaveMealFailed(p) => gor'[p] = gor[p]]_vars

\* C18, witness: SaveMeal failed on its second food, after the header and the
\* first food were written in the transaction, and the request has ended with
\* the error; the store is empty.
C18_Witness ==
    \E p \in Procs :
        /\ SaveMealFailed(p)
        /\ gor[p].ret.err = <<"failed to save meal", "failed to insert food", EngineError>>
        /\ Len(gor[p].meal.Foods) = 2
        /\ db.meals = <<>> /\ db.foods = <<>>

(***************************************************************************)
(* Properties of one request (SpecRequest, SpecRequestLive).               *)
(***************************************************************************)
\* C19: a request whose caller gave up while its estimation call was in flight
\* writes nothing to the store; a request whose caller gave up after the commit
\* leaves its meal in the store.
C19_CancelledPersistsNothing ==
    \A p \in Procs :
        /\ gor[p].cancelledAt = "estimating" => db.meals = <<>> /\ db.foods = <<>>
        /\ gor[p].cancelledAt = "notify" => MealInStore(gor[p].meal)

\* C20: a LogMeal or EstimateCarbs request whose estimation call is in flight
\* ends, also when the gateway never answers; and a request whose gateway never
\* answered has ended with the error of the estimation, no meal built.
C20_RequestTerminates ==
    /\ \A p \in Procs : (gor[p].pc = "estimating") ~> (gor[p].pc = "done")
    /\ [](\A p \in Procs :
            (gor[p].hung /\ gor[p].pc # "estimating") =>
                /\ gor[p].pc = "done" /\ gor[p].ret.kind = "error"
                /\ gor[p].ret.err[1] = "failed to calculate carbs"
                /\ gor[p].meal = NilMeal /\ db = EmptyDB)

\* C20, witness: the gateway never answered a LogMeal request and the request
\* has ended with the error of the estimation.
C20_Witness ==
    \E p \in Procs :
        /\ gor[p].op = "log_meal" /\ gor[p].hung /\ gor[p].pc = "done"
        /\ gor[p].ret.kind = "error" /\ gor[p].http = Outcome(HTTPFailure)

(***************************************************************************)
(* Properties of the handlers (Spec), the estimate and the frame.          *)
(***************************************************************************)
\* C21: an EstimateCarbs request builds no meal, never calls SaveMeal, holds no
\* transaction, and no step of it changes the store or the set of notified
\* meals; a LogMeal request asks with clarifications permitted, an EstimateCarbs
\* request with what its caller said.
C21_EstimateCarbsNoPersistence ==
    /\ [](\A p \in Procs :
            /\ gor[p].op = "calculate_carbs" =>
                   /\ gor[p].meal = NilMeal /\ ~gor[p].called /\ ~gor[p].saved
                   /\ ~db.tx[p].open /\ db.lock # p
                   /\ gor[p].pc \in {"estimating", "done", "crashed"}
                   /\ gor[p].ret.kind \in {"none", "error", "estimate"}
            /\ (gor[p].op = "log_meal" /\ gor[p].pc # "crashed") => gor[p].ask)
    /\ [][\A p \in Procs :
            (gor'[p] # gor[p] /\ gor'[p].op = "calculate_carbs" /\ gor'[p].pc # "crashed")
                => db' = db /\ notified' = notified]_vars

\* C21, witness: beside a LogMeal request that committed its meal, an
\* EstimateCarbs request whose caller did not permit clarifications has returned
\* an estimate, and the store holds the one meal.
C21_Witness ==
    \E p, q \in Procs :
        /\ gor[p].op = "calculate_carbs" /\ gor[p].pc = "done" /\ ~gor[p].ask
        /\ gor[p].ret.kind = "estimate" /\ gor[p].ret.val.Foods # <<>>
        /\ LogMealDone(q) /\ gor[q].saved /\ gor[q].ask
        /\ db.meals = <<MealRow(gor[q].meal)>>

\* C21, second witness: an EstimateCarbs request whose caller permitted
\* clarifications has returned.
C21_WitnessPermitted ==
    \E p \in Procs :
        /\ gor[p].op = "calculate_carbs" /\ gor[p].pc = "done" /\ gor[p].ask
        /\ gor[p].ret.kind = "estimate"

\* C22 (SpecClient): an estimate CalculateCarbs returns has clarifications only
\* when its needsMoreInfo is true.
C22_ClarificationsOnlyWithNeedsMoreInfo ==
    (call.returned /\ call.out.err = "") =>
        (~call.out.val.NeedsMoreInfo => call.out.val.Clarifications = <<>>)

\* C23: the meal a LogMeal request committed has the description and the
\* timestamp of the request, the foods, totalCarbs and confidence of the
\* estimate and the source "ai_parsed"; and when it has two foods its
\* totalCarbs is the sum of the two.
C23_MealBuiltUnaltered ==
    \A p \in Procs :
        (gor[p].op = "log_meal" /\ gor[p].saved /\ gor[p].pc = "done") =>
            LET meal == gor[p].meal IN
            /\ MealInStore(meal)
            /\ meal.Description = gor[p].description
            /\ meal.Timestamp = gor[p].timestamp
            /\ gor[p].param.given => meal.Timestamp = ParseRFC3339(gor[p].param).val
            /\ meal.Foods = gor[p].carbResp.Foods
            /\ meal.TotalCarbs = gor[p].carbResp.TotalCarbs
            /\ meal.Confidence = gor[p].carbResp.Confidence
            /\ meal.Source = "ai_parsed"
            /\ Len(meal.Foods) = 2 =>
                   meal.TotalCarbs = meal.Foods[1].EstimatedCarbs + meal.Foods[2].EstimatedCarbs

Kept(before, after) ==
    /\ Len(after) >= Len(before)
    /\ \A i \in 1..Len(before) : after[i] = before[i]

\* C25: no step modifies or removes a committed header row or food row (so
\* updated_at of a committed meal never changes), and a step of a ListMeals or
\* an EstimateCarbs request leaves both tables as they were.
C25_StoreAppendOnly ==
    [][/\ Kept(db.meals, db'.meals)
       /\ Kept(db.foods, db'.foods)
       /\ \A p \in Procs :
            (gor'[p] # gor[p] /\ gor'[p].op \in {"get_meals", "calculate_carbs"})
                => db'.meals = db.meals /\ db'.foods = db.foods]_vars

\* C25, witness: after one LogMeal request committed its meal, a second one
\* has committed another, a step that changed the store, and the first meal's
\* header row is still the first row of the table.
C25_Witness ==
    \E p, q \in Procs :
        /\ p # q
        /\ LogMealDone(p) /\ gor[p].saved
        /\ LogMealDone(q) /\ gor[q].saved
        /\ Len(db.meals) = 2
        /\ db.meals[1] = MealRow(gor[p].meal)
        /\ db.meals[2] = MealRow(gor[q].meal)

\* C25, second witness: a ListMeals request has returned the one committed
\* meal, whose rows are in the store as they were committed.
C25_WitnessListed ==
    \E p, q \in Procs :
        /\ gor[p].op = "get_meals" /\ gor[p].pc = "done"
        /\ gor[p].ret.kind = "meals" /\ Len(gor[p].ret.val) = 1
        /\ LogMealDone(q) /\ gor[q].saved
        /\ db.meals = <<MealRow(gor[q].meal)>>

====
